---- MODULE Spec2Model ----
(***************************************************************************)
(* GlueOps/storypoints: a GitHub App that adds opened issues to a          *)
(* Projects (V2) board and retries failed webhook deliveries.              *)
(*                                                                         *)
(* Seven specifications, one per part of the program:                      *)
(*   SpecAuth  GitHubInstallationTokenManager.get_headers called from      *)
(*             several threads (src/app/utils/github/auth.py)              *)
(*   SpecApp   the service process: module initialisation, lifespan,       *)
(*             clock, webhook handler (src/app/main.py)                    *)
(*   SpecSel   get_list_of_all_failed_delivery_ids                         *)
(*             (src/app/utils/github/hooks.py)                             *)
(*   SpecList  get_webhook_deliveries, page by page (hooks.py)             *)
(*   SpecRetry retry_failed_deliveries with github_auth_jwt and            *)
(*             retry_webhook_delivery (hooks.py, auth.py)                  *)
(*   SpecProj  get_project_node_id and add_to_project                      *)
(*             (src/app/utils/github/projects.py)                          *)
(*   SpecNew   constructions of GitHubInstallationTokenManager, with       *)
(*             calls of get_headers in between (auth.py)                   *)
(* Time is in seconds since process start.  Python's None is the string    *)
(* "None"; installation tokens are the strings "ghs_1", "ghs_2", ...       *)
(***************************************************************************)
EXTENDS Integers, Sequences, FiniteSets, TLC

\* ---------------------------------------------------------------- bounds
NumCallers == 2        \* threads calling get_headers
MaxTime == 1800        \* the clock stops advancing here
TickStep == 1800       \* seconds the clock advances in one step
SecondsToMidnight == 600   \* from scheduling the daily job to the next 00:00
MaxDeliveries == 3     \* longest list given to the selection
MaxPages == 2          \* pages of the delivery log
MaxPerPage == 2        \* deliveries on one page
MaxFailed == 2         \* failed delivery ids handed to one run of the retry job
MaxRuns == 2           \* runs of the retry job

\* ------------------------------------------------------ program constants
RefreshMargin == 3600  \* auth.py:81
DaysToReprocess == 3   \* main.py:54

None == "None"
Callers == 1 .. NumCallers

VARIABLES
    now,            \* wall clock
    _token,         \* GitHubInstallationTokenManager._token
    _expires_at,    \* GitHubInstallationTokenManager._expires_at
    nposts,         \* observer: POSTs sent to the access_tokens endpoint so far
    th,             \* per thread: position in get_headers and its locals
    app_pc,         \* main.py: how far the process has come
    headers,        \* main.py: module-level headers (the token in Authorization)
    PROJECT_NODE_ID,\* main.py: module-level PROJECT_NODE_ID
    jobs,           \* the schedule library's job list
    retry_runs,     \* observer: invocations of hooks.retry_failed_deliveries
    background_tasks, \* lifespan's local BackgroundTasks object
    last,           \* observer: the last webhook request and what it caused
    deliveries,     \* get_list_of_all_failed_delivery_ids: its argument
    i,              \* ... position of the for loop
    failed_delivery_ids,
    guids,
    lst,            \* get_webhook_deliveries: its locals and what it has fetched
    job,            \* retry_failed_deliveries: its arguments, locals and attempts
    prj,            \* a call of get_project_node_id or add_to_project
    cls             \* class GitHubInstallationTokenManager and its constructions

authVars == <<now, _token, _expires_at, nposts, th>>
appVars == <<app_pc, headers, PROJECT_NODE_ID, jobs, retry_runs, background_tasks, last>>
selVars == <<deliveries, i, failed_delivery_ids, guids>>
hookVars == <<lst, job>>
vars == <<authVars, appVars, selVars, hookVars, prj, cls>>

\* ------------------------------------------------------------ token manager

\* The expires_at field of an exchange response: absent, a string that is not
\* in the %Y-%m-%dT%H:%M:%SZ format, or a well-formed timestamp.
NoTime == [k |-> "missing", t |-> 0]
BadTime == [k |-> "bad", t |-> 0]
IsoTime(t) == [k |-> "iso", t |-> t]

\* Lifetimes the access_tokens endpoint may grant (GitHub's default is 3600).
Lifetimes == {3600}

NoResp == [kind |-> "none", token |-> None, expires_at |-> NoTime]

\* What requests.post / raise_for_status / json can produce for request n at
\* time t: a connection error, a non-2xx status, a body that is not a JSON
\* object, or a JSON object with or without the two fields.
Responses(n, t) ==
    { [kind |-> k, token |-> None, expires_at |-> NoTime] :
          k \in {"neterr", "status", "badjson"} }
    \cup
    { [kind |-> "ok", token |-> tk, expires_at |-> e] :
          tk \in {None, "ghs_" \o ToString(n)},
          e \in {NoTime, BadTime} \cup { IsoTime(t + l) : l \in Lifetimes } }

\* _parse_github_time succeeds exactly on well-formed timestamps; strptime
\* raises ValueError on a malformed string and TypeError on None.
ParseOk(e) == e.k = "iso"
_parse_github_time(e) == e.t

\* Python truthiness of self._token.
Truthy(tk) == tk # None

\* the margin compared with <= : a token with exactly 3600 seconds left is refreshed
AboutToExpire_inclusive(exp, current_time) == (exp - current_time) <= RefreshMargin

\* get_headers line 81, right operand, on the values the caller read.
AboutToExpire(exp, current_time) == (exp - current_time) < RefreshMargin

\* get_headers line 88: f"Bearer {self._token}"; None is formatted as "None".
Authorization(tk) == "Bearer " \o tk

IdleThread ==
    [pc |-> "idle", current_time |-> 0, tok |-> None, exp |-> 0,
     req |-> 0, resp |-> NoResp, ret |-> None]

\* get_headers line 79: current_time = time.time()
Call(c) ==
    /\ th[c].pc = "idle"
    /\ th' = [th EXCEPT ![c].pc = "check_token", ![c].current_time = now]
    /\ UNCHANGED <<now, _token, _expires_at, nposts>>
    /\ UNCHANGED <<appVars, selVars, hookVars, prj, cls>>

\* line 81, left operand: not self._token
CheckToken(c) ==
    /\ th[c].pc = "check_token"
    /\ th' = [th EXCEPT ![c].tok = _token,
                        ![c].pc = IF ~Truthy(_token) THEN "fetch" ELSE "check_expires"]
    /\ UNCHANGED <<now, _token, _expires_at, nposts>>
    /\ UNCHANGED <<appVars, selVars, hookVars, prj, cls>>

\* line 81, right operand: (self._expires_at - current_time) < 3600
CheckExpires(c) ==
    /\ th[c].pc = "check_expires"
    /\ th' = [th EXCEPT ![c].exp = _expires_at,
                        ![c].pc = IF AboutToExpire(_expires_at, th[c].current_time)
                                  THEN "fetch" ELSE "return"]
    /\ UNCHANGED <<now, _token, _expires_at, nposts>>
    /\ UNCHANGED <<appVars, selVars, hookVars, prj, cls>>

\* _fetch_new_token lines 99-103: the POST is sent; no lock is taken.
FetchSend(c) ==
    /\ th[c].pc = "fetch"
    /\ nposts' = nposts + 1
    /\ th' = [th EXCEPT ![c].pc = "post", ![c].req = nposts + 1]
    /\ UNCHANGED <<now, _token, _expires_at>>
    /\ UNCHANGED <<appVars, selVars, hookVars, prj, cls>>

\* lines 103-105: the response arrives; errors are re-raised (lines 110-121)
Respond(c) ==
    /\ th[c].pc = "post"
    /\ \E r \in Responses(th[c].req, now) :
          th' = [th EXCEPT ![c].resp = r,
                           ![c].pc = IF r.kind = "ok" THEN "store_token" ELSE "raised"]
    /\ UNCHANGED <<now, _token, _expires_at, nposts>>
    /\ UNCHANGED <<appVars, selVars, hookVars, prj, cls>>

\* line 106: self._token = data.get("token")
StoreToken(c) ==
    /\ th[c].pc = "store_token"
    /\ _token' = th[c].resp.token
    /\ th' = [th EXCEPT ![c].pc = "store_expires"]
    /\ UNCHANGED <<now, _expires_at, nposts>>
    /\ UNCHANGED <<appVars, selVars, hookVars, prj, cls>>

\* lines 107-108: self._expires_at = self._parse_github_time(...), or raise
StoreExpires(c) ==
    /\ th[c].pc = "store_expires"
    /\ IF ParseOk(th[c].resp.expires_at)
       THEN /\ _expires_at' = _parse_github_time(th[c].resp.expires_at)
            /\ th' = [th EXCEPT ![c].pc = "return"]
       ELSE /\ th' = [th EXCEPT ![c].pc = "raised"]
            /\ UNCHANGED _expires_at
    /\ UNCHANGED <<now, _token, nposts>>
    /\ UNCHANGED <<appVars, selVars, hookVars, prj, cls>>

\* lines 86-90: the header is built from self._token as it is now
Return(c) ==
    /\ th[c].pc = "return"
    /\ th' = [th EXCEPT ![c].pc = "done", ![c].ret = Authorization(_token)]
    /\ UNCHANGED <<now, _token, _expires_at, nposts>>
    /\ UNCHANGED <<appVars, selVars, hookVars, prj, cls>>

\* time.time() advances
Tick ==
    /\ now < MaxTime
    /\ now' = now + TickStep
    /\ UNCHANGED <<_token, _expires_at, nposts, th>>
    /\ UNCHANGED <<appVars, selVars, hookVars, prj, cls>>

GetHeadersStep(c) ==
    \/ Call(c)
    \/ CheckToken(c)
    \/ CheckExpires(c)
    \/ FetchSend(c)
    \/ Respond(c)
    \/ StoreToken(c)
    \/ StoreExpires(c)
    \/ Return(c)

NextAuth ==
    \/ \E c \in Callers : GetHeadersStep(c)
    \/ Tick

\* ------------------------------------------------------------ the service

\* What a POST to the GraphQL endpoint can produce: a connection error, a
\* non-2xx status, a body that is not JSON, or a JSON object, with or
\* without an "errors" array, in which the first `reach` keys of the expected
\* four-key path (data, organization or addProjectV2ItemById, projectV2 or
\* item, id) lead to values and the next one is missing or null.
GraphQLResponses ==
    { [transport |-> t, errors |-> FALSE, reach |-> 0, leaf |-> "missing"] :
          t \in {"neterr", "status", "badjson"} }
    \cup
    { [transport |-> "ok", errors |-> e, reach |-> n, leaf |-> l] :
          e \in BOOLEAN, n \in 0 .. 3, l \in {"missing", "null"} }
    \cup
    { [transport |-> "ok", errors |-> e, reach |-> 4, leaf |-> "value"] :
          e \in BOOLEAN }

\* projects.py lines 57 and 111, data[..][..][..]['id']: the id, None when
\* the id itself is null, KeyError at a missing key, TypeError when a null
\* is subscripted
PathLookup(r) ==
    IF r.reach = 4 THEN "value"
    ELSE IF r.leaf = "missing" THEN "KeyError"
    ELSE IF r.reach = 3 THEN "null"
    ELSE "TypeError"

\* The GITHUB_PROJECT_ID of the environment: a project number, or not one.
ProjectIds == {"7", "abc"}

\* projects.py line 38: int() of a string that is not a number raises
IntOk(project_id) == project_id = "7"

\* only the KeyError of a missing key is handled
get_project_node_id_keyerror_only(project_id, r) ==
    IF ~IntOk(project_id) THEN [raised |-> TRUE, ret |-> None, posts |-> 0]
    ELSE IF r.transport # "ok" \/ r.errors THEN [raised |-> FALSE, ret |-> None, posts |-> 1]
    ELSE IF PathLookup(r) = "value" THEN [raised |-> FALSE, ret |-> "PVT_1", posts |-> 1]
    ELSE IF PathLookup(r) = "TypeError" THEN [raised |-> TRUE, ret |-> None, posts |-> 1]
    ELSE [raised |-> FALSE, ret |-> None, posts |-> 1]

\* projects.py lines 14-71; posts counts the requests sent
get_project_node_id(project_id, r) ==
    IF ~IntOk(project_id) THEN [raised |-> TRUE, ret |-> None, posts |-> 0]
    ELSE IF r.transport # "ok" \/ r.errors THEN [raised |-> FALSE, ret |-> None, posts |-> 1]
    ELSE IF PathLookup(r) = "value" THEN [raised |-> FALSE, ret |-> "PVT_1", posts |-> 1]
    ELSE [raised |-> FALSE, ret |-> None, posts |-> 1]

\* the "errors" key is not looked at
add_to_project_ignores_errors(r) ==
    IF r.transport # "ok" THEN [raised |-> FALSE, ret |-> FALSE]
    ELSE [raised |-> FALSE, ret |-> PathLookup(r) \in {"value", "null"}]

\* projects.py lines 100-125: True when the lookup of line 111 does not raise
add_to_project(r) ==
    IF r.transport # "ok" \/ r.errors THEN [raised |-> FALSE, ret |-> FALSE]
    ELSE [raised |-> FALSE, ret |-> PathLookup(r) \in {"value", "null"}]

\* The x-github-event header and the request body of a webhook request.
EventTypes == {"issues", "push", None}
Actions == {None, "opened", "reopened", "closed"}
NodeIds == {None, "", "I_1"}
Bodies ==
    { [shape |-> sh, action |-> None, issue |-> "absent", node_id |-> None] :
          sh \in {"invalid", "array"} }
    \cup
    { [shape |-> "object", action |-> a, issue |-> "absent", node_id |-> None] :
          a \in Actions }
    \cup
    { [shape |-> "object", action |-> a, issue |-> "null", node_id |-> None] :
          a \in Actions }
    \cup
    { [shape |-> "object", action |-> a, issue |-> "object", node_id |-> n] :
          a \in Actions, n \in NodeIds }

NoRequest ==
    [event_type |-> None,
     body |-> [shape |-> "invalid", action |-> None, issue |-> "absent", node_id |-> None],
     at |-> 0, calls |-> << >>, added |-> FALSE, reply |-> "none"]

\* main.py line 73, the call: get_headers() on the main thread (thread 1).
\* The cache is empty at import, so line 81 of auth.py short-circuits and
\* the expiry is not read.
StartupGetHeaders ==
    /\ app_pc = "init_headers"
    /\ \/ Call(1)
       \/ CheckToken(1)
       \/ FetchSend(1)
       \/ Respond(1)
       \/ StoreToken(1)
       \/ StoreExpires(1)
       \/ Return(1)

\* main.py line 73, the assignment: headers = ...
AssignHeaders ==
    /\ app_pc = "init_headers"
    /\ th[1].pc = "done"
    /\ headers' = th[1].ret
    /\ app_pc' = "init_project"
    /\ UNCHANGED <<PROJECT_NODE_ID, jobs, retry_runs, background_tasks, last>>
    /\ UNCHANGED <<authVars, selVars, hookVars, prj, cls>>

\* main.py lines 83-86: get_headers raised; the import fails
StartupFailed ==
    /\ app_pc = "init_headers"
    /\ th[1].pc = "raised"
    /\ app_pc' = "failed"
    /\ UNCHANGED <<headers, PROJECT_NODE_ID, jobs, retry_runs, background_tasks, last>>
    /\ UNCHANGED <<authVars, selVars, hookVars, prj, cls>>

\* main.py lines 77-86: PROJECT_NODE_ID = projects.get_project_node_id(...);
\* an exception fails the import
InitProject ==
    /\ app_pc = "init_project"
    /\ \E project_id \in ProjectIds, r \in GraphQLResponses :
          LET res == get_project_node_id(project_id, r) IN
          IF res.raised
          THEN app_pc' = "failed" /\ UNCHANGED PROJECT_NODE_ID
          ELSE app_pc' = "lifespan" /\ PROJECT_NODE_ID' = res.ret
    /\ UNCHANGED <<headers, jobs, retry_runs, background_tasks, last>>
    /\ UNCHANGED <<authVars, selVars, hookVars, prj, cls>>

\* main.py lines 101-138: the job is scheduled for 00:00, run once now, the
\* loop run_scheduled_tasks is added to a BackgroundTasks object that nothing
\* executes, the environment is checked again (the variables were read at
\* import, so none is missing), and the application starts serving.
Lifespan ==
    /\ app_pc = "lifespan"
    /\ jobs' = Append(jobs, [at |-> now + SecondsToMidnight, runs |-> 0])
    /\ retry_runs' = retry_runs + 1
    /\ background_tasks' = Append(background_tasks, "run_scheduled_tasks")
    /\ app_pc' = "serving"
    /\ UNCHANGED <<headers, PROJECT_NODE_ID, last>>
    /\ UNCHANGED <<authVars, selVars, hookVars, prj, cls>>

\* the handler without the node id test of line 170
HandlerOutcome_any_node_id(event_type, body, r) ==
    IF event_type # "issues"
    THEN [calls |-> << >>, added |-> FALSE, reply |-> "No action taken."]
    ELSE IF body.shape # "object" \/ body.issue = "null"
    THEN [calls |-> << >>, added |-> FALSE, reply |-> "500"]
    ELSE IF body.action \in {"opened", "reopened"}
    THEN [calls |-> << [project |-> PROJECT_NODE_ID, content |-> body.node_id,
                        auth |-> headers] >>,
          added |-> add_to_project(r).ret,
          reply |-> "Issue added to project."]
    ELSE [calls |-> << >>, added |-> FALSE, reply |-> "No action taken."]

\* main.py lines 156-186 on one request
HandlerOutcome(event_type, body, r) ==
    IF event_type # "issues"
    THEN [calls |-> << >>, added |-> FALSE, reply |-> "No action taken."]
    ELSE IF body.shape # "object" \/ body.issue = "null"
    THEN [calls |-> << >>, added |-> FALSE, reply |-> "500"]
    ELSE IF body.action \in {"opened", "reopened"} /\ body.node_id \notin {None, ""}
    THEN [calls |-> << [project |-> PROJECT_NODE_ID, content |-> body.node_id,
                        auth |-> headers] >>,
          added |-> add_to_project(r).ret,
          reply |-> "Issue added to project."]
    ELSE [calls |-> << >>, added |-> FALSE, reply |-> "No action taken."]

\* main.py lines 148-186: trigger_workflow
TriggerWorkflow ==
    /\ app_pc = "serving"
    /\ \E event_type \in EventTypes, body \in Bodies, r \in GraphQLResponses :
          LET out == HandlerOutcome(event_type, body, r) IN
          last' = [event_type |-> event_type, body |-> body, at |-> now,
                   calls |-> out.calls, added |-> out.added, reply |-> out.reply]
    /\ UNCHANGED <<app_pc, headers, PROJECT_NODE_ID, jobs, retry_runs, background_tasks>>
    /\ UNCHANGED <<authVars, selVars, hookVars, prj, cls>>

NextApp ==
    \/ StartupGetHeaders
    \/ AssignHeaders
    \/ StartupFailed
    \/ InitProject
    \/ Lifespan
    \/ TriggerWorkflow
    \/ Tick

\* ------------------------------------------------- selection of failed ids

StatusCodes == {200, 500}
Guids == {"a", "b"}
Ids == {None, "d1", "d2"}
Delivery == [status_code : StatusCodes, guid : Guids, id : Ids]

\* all lists of at most n deliveries
RECURSIVE ListsUpTo(_)
ListsUpTo(n) ==
    IF n = 0 THEN { << >> }
    ELSE LET shorter == ListsUpTo(n - 1) IN
         shorter \cup { Append(l, d) : l \in { s \in shorter : Len(s) = n - 1 },
                                       d \in Delivery }

InList(x, l) == \E k \in 1 .. Len(l) : l[k] = x

\* the guid is not looked up among the guids seen
Selects_no_dedup(delivery, seen) ==
    /\ delivery.status_code # 200
    /\ delivery.id # None

\* hooks.py line 38
Selects(delivery, seen) ==
    /\ delivery.status_code # 200
    /\ ~InList(delivery.guid, seen)
    /\ delivery.id # None

\* hooks.py lines 32-42: one iteration of the for loop
SelectStep ==
    /\ i <= Len(deliveries)
    /\ LET delivery == deliveries[i] IN
       IF Selects(delivery, guids)
       THEN /\ failed_delivery_ids' = Append(failed_delivery_ids, delivery.id)
            /\ guids' = Append(guids, delivery.guid)
       ELSE UNCHANGED <<failed_delivery_ids, guids>>
    /\ i' = i + 1
    /\ UNCHANGED deliveries
    /\ UNCHANGED <<authVars, appVars, hookVars, prj, cls>>

NextSel == SelectStep

\* ------------------------------------------------ listing recent deliveries

\* hooks.py line 81: strptime succeeds on "%Y-%m-%dT%H:%M:%SZ" strings only
StrptimeOk(s) == s.k = "iso"
strptime(s) == s.t

\* not inside get_webhook_deliveries
ListOff ==
    [pc |-> "off", cutoff_time |-> 0, url |-> 0, data |-> << >>, next |-> FALSE,
     pos |-> 0, deliveries |-> << >>, seen |-> << >>, fetches |-> 0, stop |-> "none"]

\* hooks.py line 61: utcnow() - timedelta(days=days_to_reprocess)
CutoffTime(t, days) == t - days * 86400

\* The delivered_at values a delivery may carry: none, a string in another
\* format, the second before the cutoff, the cutoff itself.
DeliveredAt(cutoff) == {NoTime, BadTime, IsoTime(cutoff - 1), IsoTime(cutoff)}

\* all lists of at most n values of S
RECURSIVE SeqsUpTo(_, _)
SeqsUpTo(S, n) ==
    IF n = 0 THEN { << >> }
    ELSE LET shorter == SeqsUpTo(S, n - 1) IN
         shorter \cup { Append(l, x) : l \in { q \in shorter : Len(q) = n - 1 },
                                       x \in S }

\* What the GET of page p can produce (hooks.py lines 66-69, 94): a non-2xx
\* status, a connection error, a body that is not JSON, or a list of
\* deliveries with or without a rel="next" link.
PageResponses(p, cutoff) ==
    { [kind |-> k, data |-> << >>, next |-> FALSE] :
          k \in {"http_error", "neterr", "badjson"} }
    \cup
    { [kind |-> "ok",
       data |-> [k \in 1 .. Len(ts) |-> [id |-> <<p, k>>, delivered_at |-> ts[k]]],
       next |-> n] :
          ts \in SeqsUpTo(DeliveredAt(cutoff), MaxPerPage),
          n \in BOOLEAN }

\* only requests.exceptions.HTTPError is handled; anything else propagates
FetchFailure_http_only(kind) == IF kind = "http_error" THEN "returned" ELSE "raised"

\* hooks.py lines 114-125: each handler logs and breaks; line 128 returns
FetchFailure(kind) == "returned"

\* an unreadable timestamp ends the scan like an old one
ScanVerdict_strict(delivery, cutoff) ==
    IF delivery.delivered_at.k # "iso" THEN "stop"
    ELSE IF strptime(delivery.delivered_at) >= cutoff THEN "keep"
    ELSE "stop"

\* hooks.py lines 75-91 on one delivery: skipped, appended, or the end
ScanVerdict(delivery, cutoff) ==
    IF delivery.delivered_at.k = "missing" THEN "skip"
    ELSE IF ~StrptimeOk(delivery.delivered_at) THEN "skip"
    ELSE IF strptime(delivery.delivered_at) >= cutoff THEN "keep"
    ELSE "stop"

\* hooks.py lines 63-72 and 114-125: one GET
ListFetch ==
    /\ lst.pc = "fetch"
    /\ \E r \in PageResponses(lst.url, lst.cutoff_time) :
          lst' = IF r.kind # "ok"
                 THEN [lst EXCEPT !.pc = FetchFailure(r.kind), !.stop = r.kind,
                                  !.fetches = @ + 1]
                 ELSE IF r.data = << >>
                 THEN [lst EXCEPT !.pc = "returned", !.stop = "empty",
                                  !.fetches = @ + 1]
                 ELSE [lst EXCEPT !.pc = "scan", !.data = r.data, !.next = r.next,
                                  !.pos = 1, !.seen = Append(@, r.data),
                                  !.fetches = @ + 1]
    /\ UNCHANGED <<authVars, appVars, selVars, job, prj, cls>>

\* hooks.py lines 74-91: one iteration of the for loop
ListScan ==
    /\ lst.pc = "scan"
    /\ lst.pos <= Len(lst.data)
    /\ LET delivery == lst.data[lst.pos]
           verdict == ScanVerdict(delivery, lst.cutoff_time) IN
       lst' = IF verdict = "keep"
              THEN [lst EXCEPT !.deliveries = Append(@, delivery), !.pos = @ + 1]
              ELSE IF verdict = "skip"
              THEN [lst EXCEPT !.pos = @ + 1]
              ELSE [lst EXCEPT !.pc = "returned", !.stop = "old"]
    /\ UNCHANGED <<authVars, appVars, selVars, job, prj, cls>>

\* hooks.py lines 93-112 and 127-128: the Link header after the last delivery.
\* The model follows links up to page MaxPages.
ListFollow ==
    /\ lst.pc = "scan"
    /\ lst.pos > Len(lst.data)
    /\ lst.next => lst.url < MaxPages
    /\ lst' = IF lst.next
              THEN [lst EXCEPT !.pc = "fetch", !.url = @ + 1]
              ELSE [lst EXCEPT !.pc = "returned", !.stop = "nolink"]
    /\ UNCHANGED <<authVars, appVars, selVars, job, prj, cls>>

NextList ==
    \/ ListFetch
    \/ ListScan
    \/ ListFollow

\* ----------------------------------------------------------- the retry job

NoPayload == [iat |-> 0, exp |-> 0, iss |-> None]

\* not inside retry_failed_deliveries
JobOff ==
    [pc |-> "off", github_app_id |-> None, github_app_private_key |-> None,
     minted_at |-> 0, payload |-> NoPayload, auth_headers |-> None,
     failed_delivery_ids |-> << >>, k |-> 0, attempts |-> << >>,
     caught |-> "none", runs |-> 0]

AppIds == {"1", "2"}
PrivateKeys == {"pem", "malformed"}
FailedIds == {"d1", "d2"}

\* issued and expiring at the same instants, 480 seconds apart
JwtPayload_no_skew(github_app_id, t) ==
    [iat |-> t, exp |-> t + 60 * 8, iss |-> github_app_id]

\* auth.py lines 30-35
JwtPayload(github_app_id, t) ==
    [iat |-> t - 60, exp |-> t + 60 * 8, iss |-> github_app_id]

\* auth.py line 37: the compact form of a token signed by the key; signing
\* with a key that is not an RSA private key raises
jwt_encode(payload, key) ==
    IF key = "pem"
    THEN "jwt:" \o payload.iss \o ":" \o ToString(payload.iat) \o ":" \o ToString(payload.exp)
    ELSE None

\* the header get_headers would give: the installation token of the manager
github_auth_jwt_from_manager(github_app_id, github_app_private_key, t) ==
    [raised |-> FALSE, payload |-> NoPayload, Authorization |-> Authorization(_token)]

\* auth.py lines 19-48 at time t
github_auth_jwt(github_app_id, github_app_private_key, t) ==
    LET payload == JwtPayload(github_app_id, t)
        token == jwt_encode(payload, github_app_private_key) IN
    IF token = None
    THEN [raised |-> TRUE, payload |-> NoPayload, Authorization |-> None]
    ELSE [raised |-> FALSE, payload |-> payload, Authorization |-> Authorization(token)]

\* What the POST of hooks.py line 146 can produce: an exception of requests,
\* or a response with a status and a body that is JSON or not.
RetryOutcomes ==
    { [exc |-> e, status_code |-> 0, body |-> "none"] :
          e \in {"ConnectionError", "Timeout", "RequestException"} }
    \cup
    { [exc |-> "none", status_code |-> s, body |-> b] :
          s \in {202, 404}, b \in {"json", "notjson"} }

\* exceptions of the POST are not handled
retry_webhook_delivery_no_catch(o) ==
    IF o.exc # "none" THEN [raised |-> TRUE, ret |-> None]
    ELSE IF o.body = "json" THEN [raised |-> FALSE, ret |-> "json"]
    ELSE [raised |-> FALSE, ret |-> None]

\* hooks.py lines 144-167: the parsed body of any response, None when the
\* POST or the parsing raised
retry_webhook_delivery(o) ==
    IF o.exc # "none" THEN [raised |-> FALSE, ret |-> None]
    ELSE IF o.body = "json" THEN [raised |-> FALSE, ret |-> "json"]
    ELSE [raised |-> FALSE, ret |-> None]

\* an exception of the minting leaves retry_failed_deliveries
Caught_not_jwt(where) == IF where = "jwt" THEN "raised" ELSE "done"

\* hooks.py lines 200-202: whatever was raised inside the try, the function
\* logs it and returns
Caught(where) == "done"

\* hooks.py line 184
JobMint ==
    /\ job.pc = "mint"
    /\ LET h == github_auth_jwt(job.github_app_id, job.github_app_private_key, now) IN
       job' = IF h.raised
              THEN [job EXCEPT !.pc = Caught("jwt"), !.caught = "jwt"]
              ELSE [job EXCEPT !.pc = "list", !.minted_at = now,
                               !.payload = h.payload,
                               !.auth_headers = h.Authorization]
    /\ UNCHANGED <<authVars, appVars, selVars, lst, prj, cls>>

\* hooks.py lines 188-191: listing and selection give the ids to retry, or
\* raise (timedelta overflow at line 61, a delivery that is not a dict)
JobList ==
    /\ job.pc = "list"
    /\ \/ \E ids \in SeqsUpTo(FailedIds, MaxFailed) :
             job' = [job EXCEPT !.pc = "retry", !.failed_delivery_ids = ids, !.k = 1]
       \/ job' = [job EXCEPT !.pc = Caught("list"), !.caught = "list"]
    /\ UNCHANGED <<authVars, appVars, selVars, lst, prj, cls>>

\* hooks.py lines 194-195: one iteration of the for loop
JobRetry ==
    /\ job.pc = "retry"
    /\ job.k <= Len(job.failed_delivery_ids)
    /\ \E o \in RetryOutcomes :
          LET delivery_id == job.failed_delivery_ids[job.k]
              res == retry_webhook_delivery(o)
              attempt == [delivery_id |-> delivery_id, outcome |-> o, result |-> res] IN
          job' = IF res.raised
                 THEN [job EXCEPT !.pc = Caught("retry"), !.caught = "retry",
                                  !.attempts = Append(@, attempt)]
                 ELSE [job EXCEPT !.k = @ + 1, !.attempts = Append(@, attempt)]
    /\ UNCHANGED <<authVars, appVars, selVars, lst, prj, cls>>

\* hooks.py line 197: the loop is over
JobFinish ==
    /\ job.pc = "retry"
    /\ job.k > Len(job.failed_delivery_ids)
    /\ job' = [job EXCEPT !.pc = "done"]
    /\ UNCHANGED <<authVars, appVars, selVars, lst, prj, cls>>

\* main.py lines 118-121 and the daily job of lines 111-116: the function is
\* called again with the same arguments
JobStart ==
    /\ job.pc = "done"
    /\ job.runs + 1 < MaxRuns
    /\ job' = [JobOff EXCEPT !.pc = "mint",
                             !.github_app_id = job.github_app_id,
                             !.github_app_private_key = job.github_app_private_key,
                             !.runs = job.runs + 1]
    /\ UNCHANGED <<authVars, appVars, selVars, lst, prj, cls>>

NextRetry ==
    \/ JobMint
    \/ JobList
    \/ JobRetry
    \/ JobFinish
    \/ JobStart

\* ------------------------------------------------------ the project client

NoGraphQL == [transport |-> "none", errors |-> FALSE, reach |-> 0, leaf |-> "missing"]

\* no call of the project client
NoCall ==
    [pc |-> "off", fn |-> None, project_id |-> None, item_node_id |-> None,
     r |-> NoGraphQL, posts |-> 0, node_id |-> None, added |-> FALSE]

ItemNodeIds == {"I_1", "I_2"}

\* a call of get_project_node_id runs to its end
GetProjectNodeId ==
    /\ prj.pc = "call"
    /\ prj.fn = "get_project_node_id"
    /\ LET res == get_project_node_id(prj.project_id, prj.r) IN
       prj' = [prj EXCEPT !.pc = IF res.raised THEN "raised" ELSE "returned",
                          !.posts = res.posts, !.node_id = res.ret]
    /\ UNCHANGED <<authVars, appVars, selVars, hookVars, cls>>

\* a call of add_to_project runs to its end
AddToProject ==
    /\ prj.pc = "call"
    /\ prj.fn = "add_to_project"
    /\ LET res == add_to_project(prj.r) IN
       prj' = [prj EXCEPT !.pc = IF res.raised THEN "raised" ELSE "returned",
                          !.posts = 1, !.added = res.ret]
    /\ UNCHANGED <<authVars, appVars, selVars, hookVars, cls>>

NextProj ==
    \/ GetProjectNodeId
    \/ AddToProject

\* ------------------------------------------- constructing the token manager

\* the three arguments of a construction
Credentials ==
    { [installation_id |-> "i1", app_id |-> "1", private_key |-> "pem"],
      [installation_id |-> "i2", app_id |-> "2", private_key |-> "malformed"] }

NoCredentials == [installation_id |-> None, app_id |-> None, private_key |-> None]

\* a thread that is not constructing
IdleConstructor == [pc |-> "idle", args |-> NoCredentials, ret |-> None]

\* auth.py lines 55-56: the class as defined, before any construction
ClassLoaded ==
    [_instance |-> None, _lock |-> 0, created |-> 0,
     github_app_installation_id |-> None, github_app_id |-> None,
     github_app_private_key |-> None,
     ctor |-> [c \in Callers |-> IdleConstructor], constructions |-> << >>]

\* the class is not looked at
ClassOff == [ClassLoaded EXCEPT !._instance = "off"]

\* every construction makes an instance and stores its arguments
New_always_creates(args) ==
    [_instance |-> "obj" \o ToString(cls.created + 1), created |-> cls.created + 1,
     github_app_installation_id |-> args.installation_id,
     github_app_id |-> args.app_id,
     github_app_private_key |-> args.private_key,
     _token |-> None, _expires_at |-> 0]

\* auth.py lines 60-70: the body of __new__, run while holding cls._lock;
\* the instance, its attributes and its cache after it
New(args) ==
    IF cls._instance = None
    THEN [_instance |-> "obj" \o ToString(cls.created + 1), created |-> cls.created + 1,
          github_app_installation_id |-> args.installation_id,
          github_app_id |-> args.app_id,
          github_app_private_key |-> args.private_key,
          _token |-> None, _expires_at |-> 0]
    ELSE [_instance |-> cls._instance, created |-> cls.created,
          github_app_installation_id |-> cls.github_app_installation_id,
          github_app_id |-> cls.github_app_id,
          github_app_private_key |-> cls.github_app_private_key,
          _token |-> _token, _expires_at |-> _expires_at]

\* auth.py line 59: a thread calls the class and takes cls._lock
NewLock(c) ==
    /\ cls.ctor[c].pc = "idle"
    /\ cls._lock = 0
    /\ \E args \in Credentials :
          cls' = [cls EXCEPT !._lock = c, !.ctor[c].pc = "locked", !.ctor[c].args = args]
    /\ UNCHANGED <<authVars, appVars, selVars, hookVars, prj>>

\* auth.py lines 60-70: the body, the return and the release of the lock
NewBody(c) ==
    /\ cls.ctor[c].pc = "locked"
    /\ LET n == New(cls.ctor[c].args) IN
       /\ cls' = [cls EXCEPT !._instance = n._instance, !.created = n.created,
                             !.github_app_installation_id = n.github_app_installation_id,
                             !.github_app_id = n.github_app_id,
                             !.github_app_private_key = n.github_app_private_key,
                             !._lock = 0,
                             !.ctor[c].pc = "done", !.ctor[c].ret = n._instance,
                             !.constructions =
                                 Append(@, [args |-> cls.ctor[c].args, ret |-> n._instance,
                                            cached |-> _token])]
       /\ _token' = n._token
       /\ _expires_at' = n._expires_at
    /\ UNCHANGED <<now, nposts, th>>
    /\ UNCHANGED <<appVars, selVars, hookVars, prj>>

\* auth.py lines 72-108: a call of get_headers on the instance that no other
\* call overlaps; an exchange that fails leaves what it did not reach
GetHeaders ==
    /\ cls._instance # None
    /\ nposts < NumCallers
    /\ ~Truthy(_token) \/ AboutToExpire(_expires_at, now)
    /\ \E r \in Responses(nposts + 1, now) :
          /\ _token' = IF r.kind = "ok" THEN r.token ELSE _token
          /\ _expires_at' = IF r.kind = "ok" /\ ParseOk(r.expires_at)
                            THEN _parse_github_time(r.expires_at)
                            ELSE _expires_at
    /\ nposts' = nposts + 1
    /\ UNCHANGED <<now, th>>
    /\ UNCHANGED <<appVars, selVars, hookVars, prj, cls>>

Construct(c) ==
    \/ NewLock(c)
    \/ NewBody(c)

NextNew ==
    \/ \E c \in Callers : Construct(c)
    \/ GetHeaders

\* ---------------------------------------------------------- specifications

\* The manager as __new__ leaves it (auth.py:58-70), no thread inside
\* get_headers; the service and the selection are not running.
InitAuth ==
    /\ now = 0
    /\ _token = None
    /\ _expires_at = 0
    /\ nposts = 0
    /\ th = [c \in Callers |-> IdleThread]
    /\ app_pc = "off"
    /\ headers = "unset"
    /\ PROJECT_NODE_ID = "unset"
    /\ jobs = << >>
    /\ retry_runs = 0
    /\ background_tasks = << >>
    /\ last = NoRequest
    /\ deliveries = << >>
    /\ i = 1
    /\ failed_delivery_ids = << >>
    /\ guids = << >>
    /\ lst = ListOff
    /\ job = JobOff
    /\ prj = NoCall
    /\ cls = ClassOff

\* The process at main.py line 66: the manager is constructed, nothing else
\* has been initialised.
InitApp ==
    /\ now = 0
    /\ _token = None
    /\ _expires_at = 0
    /\ nposts = 0
    /\ th = [c \in Callers |-> IdleThread]
    /\ app_pc = "init_headers"
    /\ headers = "unset"
    /\ PROJECT_NODE_ID = "unset"
    /\ jobs = << >>
    /\ retry_runs = 0
    /\ background_tasks = << >>
    /\ last = NoRequest
    /\ deliveries = << >>
    /\ i = 1
    /\ failed_delivery_ids = << >>
    /\ guids = << >>
    /\ lst = ListOff
    /\ job = JobOff
    /\ prj = NoCall
    /\ cls = ClassOff

\* hooks.py lines 30-31, entered with some list of deliveries
InitSel ==
    /\ now = 0
    /\ _token = None
    /\ _expires_at = 0
    /\ nposts = 0
    /\ th = [c \in Callers |-> IdleThread]
    /\ app_pc = "off"
    /\ headers = "unset"
    /\ PROJECT_NODE_ID = "unset"
    /\ jobs = << >>
    /\ retry_runs = 0
    /\ background_tasks = << >>
    /\ last = NoRequest
    /\ deliveries \in ListsUpTo(MaxDeliveries)
    /\ i = 1
    /\ failed_delivery_ids = << >>
    /\ guids = << >>
    /\ lst = ListOff
    /\ job = JobOff
    /\ prj = NoCall
    /\ cls = ClassOff

InitList ==
    /\ now = 0
    /\ _token = None
    /\ _expires_at = 0
    /\ nposts = 0
    /\ th = [c \in Callers |-> IdleThread]
    /\ app_pc = "off"
    /\ headers = None
    /\ PROJECT_NODE_ID = None
    /\ jobs = << >>
    /\ retry_runs = 0
    /\ background_tasks = << >>
    /\ last = NoRequest
    /\ deliveries = << >>
    /\ i = 1
    /\ failed_delivery_ids = << >>
    /\ guids = << >>
    /\ lst = [ListOff EXCEPT !.pc = "fetch", !.url = 1,
                             !.cutoff_time = CutoffTime(now, DaysToReprocess)]
    /\ job = JobOff
    /\ prj = NoCall
    /\ cls = ClassOff

InitRetry ==
    /\ now \in {0, MaxTime}
    /\ \E tk \in {None, "ghs_1"} :
          /\ _token = tk
          /\ _expires_at = IF tk = None THEN 0 ELSE now + 3600
    /\ nposts = 0
    /\ th = [c \in Callers |-> IdleThread]
    /\ app_pc = "off"
    /\ headers = None
    /\ PROJECT_NODE_ID = None
    /\ jobs = << >>
    /\ retry_runs = 0
    /\ background_tasks = << >>
    /\ last = NoRequest
    /\ deliveries = << >>
    /\ i = 1
    /\ failed_delivery_ids = << >>
    /\ guids = << >>
    /\ lst = ListOff
    /\ job \in { [JobOff EXCEPT !.pc = "mint", !.github_app_id = a,
                                !.github_app_private_key = k] :
                    a \in AppIds, k \in PrivateKeys }
    /\ prj = NoCall
    /\ cls = ClassOff

InitProj ==
    /\ now = 0
    /\ _token = None
    /\ _expires_at = 0
    /\ nposts = 0
    /\ th = [c \in Callers |-> IdleThread]
    /\ app_pc = "off"
    /\ headers = None
    /\ PROJECT_NODE_ID = None
    /\ jobs = << >>
    /\ retry_runs = 0
    /\ background_tasks = << >>
    /\ last = NoRequest
    /\ deliveries = << >>
    /\ i = 1
    /\ failed_delivery_ids = << >>
    /\ guids = << >>
    /\ lst = ListOff
    /\ job = JobOff
    /\ prj \in { [NoCall EXCEPT !.pc = "call", !.fn = "get_project_node_id",
                                !.project_id = p, !.r = r] :
                    p \in ProjectIds, r \in GraphQLResponses }
               \cup
               { [NoCall EXCEPT !.pc = "call", !.fn = "add_to_project",
                                !.item_node_id = n, !.r = r] :
                    n \in ItemNodeIds, r \in GraphQLResponses }
    /\ cls = ClassOff

InitNew ==
    /\ now = 0
    /\ _token = None
    /\ _expires_at = 0
    /\ nposts = 0
    /\ th = [c \in Callers |-> IdleThread]
    /\ app_pc = "off"
    /\ headers = None
    /\ PROJECT_NODE_ID = None
    /\ jobs = << >>
    /\ retry_runs = 0
    /\ background_tasks = << >>
    /\ last = NoRequest
    /\ deliveries = << >>
    /\ i = 1
    /\ failed_delivery_ids = << >>
    /\ guids = << >>
    /\ lst = ListOff
    /\ job = JobOff
    /\ prj = NoCall
    /\ cls = ClassLoaded

SpecAuth ==
    /\ InitAuth
    /\ [][NextAuth]_vars

SpecApp ==
    /\ InitApp
    /\ [][NextApp]_vars

SpecSel ==
    /\ InitSel
    /\ [][NextSel]_vars

SpecList ==
    /\ InitList
    /\ [][NextList]_vars

SpecRetry ==
    /\ InitRetry
    /\ [][NextRetry]_vars

SpecProj ==
    /\ InitProj
    /\ [][NextProj]_vars

SpecNew ==
    /\ InitNew
    /\ [][NextNew]_vars

\* ------------------------------------------------------------------ claims

Tokens == { "ghs_" \o ToString(n) : n \in 1 .. nposts }

\* the caller's staleness check has been made and saw a token with at least
\* 3600 seconds left
ObservedFresh(c) ==
    /\ th[c].pc \notin {"idle", "check_token", "check_expires"}
    /\ th[c].tok # None
    /\ th[c].exp - th[c].current_time >= 3600

\* the caller's staleness check has been made and saw no token, or one with
\* less than 3600 seconds left
ObservedStale(c) ==
    /\ th[c].pc \notin {"idle", "check_token", "check_expires"}
    /\ \/ th[c].tok = None
       \/ th[c].exp - th[c].current_time < 3600

\* the exchange answered 2xx with a token and an expiry at least 3600 s ahead
GoodResponse(c) ==
    /\ th[c].resp.kind = "ok"
    /\ th[c].resp.token # None
    /\ th[c].resp.expires_at.k = "iso"
    /\ th[c].resp.expires_at.t - th[c].current_time >= 3600

\* the exchange failed: network error, non-2xx, unreadable body, or a body
\* without token or without expires_at
FailedExchange(c) ==
    \/ th[c].resp.kind \in {"neterr", "status", "badjson"}
    \/ /\ th[c].resp.kind = "ok"
       /\ \/ th[c].resp.token = None
          \/ th[c].resp.expires_at.k = "missing"

\* C1: at every moment at most one token-exchange POST is in flight, however
\* many threads are inside get_headers.
C1_AtMostOneExchangeInFlight ==
    Cardinality({ c \in Callers : th[c].pc = "post" }) <= 1

\* C2: when all callers race a cold cache and every exchange answers with a
\* good token, exactly one exchange was made in total and every caller
\* returns the header of that one token.
C2_ColdRaceExactlyOneExchange ==
    (\A c \in Callers :
        /\ th[c].pc = "done"
        /\ th[c].tok = None
        /\ th[c].req > 0 => GoodResponse(c))
    => /\ nposts = 1
       /\ \A c, d \in Callers : th[c].ret = th[d].ret

\* C3: a call whose staleness check sees a cached token with at least 3600
\* seconds left sends no exchange request, leaves the cached token and expiry
\* as they are, and returns 'Bearer ' followed by the cached token.
C3_HitInv ==
    \A c \in Callers :
        ObservedFresh(c) =>
            /\ th[c].req = 0
            /\ th[c].resp = NoResp
            /\ th[c].pc \in {"return", "done"}

C3_HitStep ==
    \A c \in Callers :
        (ObservedFresh(c) /\ th'[c] # th[c]) =>
            /\ _token' = _token
            /\ _expires_at' = _expires_at
            /\ nposts' = nposts
            /\ th'[c].pc = "done"
            /\ th'[c].ret = "Bearer " \o _token

C3_CacheHitNoNetwork == [](C3_HitInv) /\ [][C3_HitStep]_vars

C3_Witness ==
    \E c \in Callers :
        /\ th[c].pc = "done"
        /\ ObservedFresh(c)
        /\ th[c].req = 0
        /\ th[c].ret = "Bearer ghs_1"
        /\ nposts = 1

\* C4: a call that found the token absent or within 3600 seconds of expiry
\* returns only after making an exchange, and the header it returns carries
\* a token issued by an exchange.
C4_StaleNeverReturned ==
    \A c \in Callers :
        (th[c].pc = "done" /\ ObservedStale(c)) =>
            /\ th[c].req > 0
            /\ \E tk \in Tokens : th[c].ret = "Bearer " \o tk

\* C5: when startup obtained a token, the token sent with an add_item call
\* is the manager's token and has at least 3600 seconds left at the time the
\* event is handled, however late the event arrives.
C5_HandlerTokenPassedCheck ==
    (last.reply = "Issue added to project." /\ _token # None) =>
        \A k \in 1 .. Len(last.calls) :
            /\ last.calls[k].auth = "Bearer " \o _token
            /\ _expires_at - last.at >= 3600

\* C6: after a refresh attempt failed because expires_at could not be
\* parsed, the cache does not hold the token of that response.
C6_UnparseableExpiryNotCached ==
    \A c \in Callers :
        (/\ th[c].pc = "raised"
         /\ th[c].resp.kind = "ok"
         /\ th[c].resp.expires_at.k # "iso"
         /\ th[c].resp.token # None)
        => _token # th[c].resp.token

\* C7: get_headers returns only after an exchange that did not fail, and the
\* header it returns is never built from an absent token.
C7_FailedExchangeRaises ==
    \A c \in Callers :
        th[c].pc = "done" =>
            /\ ~FailedExchange(c)
            /\ th[c].ret # "Bearer None"

\* C8: once the application serves, the retry job has run once, and a daily
\* job whose 00:00 has passed has been run by the scheduler loop.
C8_DueJobIsRun ==
    app_pc = "serving" =>
        /\ retry_runs >= 1
        /\ \A j \in 1 .. Len(jobs) : now > jobs[j].at => jobs[j].runs >= 1

\* the request asks for an issue to be added
Relevant(req) ==
    /\ req.event_type = "issues"
    /\ req.body.action \in {"opened", "reopened"}
    /\ req.body.node_id \notin {None, ""}

\* the body of an issues event is not a JSON object, or its issue is null
Malformed(req) ==
    /\ req.event_type = "issues"
    /\ \/ req.body.shape # "object"
       \/ req.body.issue = "null"

RECURSIVE Chosen(_, _)
Chosen(d, k) ==
    /\ d[k].status_code # 200
    /\ d[k].id # None
    /\ \A j \in 1 .. (k - 1) : Chosen(d, j) => d[j].guid # d[k].guid

\* the ids of the chosen entries among the first k, in input order
RECURSIVE ChosenIds(_, _)
ChosenIds(d, k) ==
    IF k = 0 THEN << >>
    ELSE IF Chosen(d, k) THEN Append(ChosenIds(d, k - 1), d[k].id)
    ELSE ChosenIds(d, k - 1)

\* C10: the selection returns, in input order, the id of every entry that is
\* failed, has an id, and whose guid was on no earlier selected entry; two
\* failed entries with one guid give the first id only, and a list of
\* entries with status 200 gives the empty list.
C10_SelectsFirstFailedPerGuid ==
    i > Len(deliveries) =>
        /\ failed_delivery_ids = ChosenIds(deliveries, Len(deliveries))
        /\ (/\ Len(deliveries) = 2
            /\ \A k \in 1 .. 2 : deliveries[k].status_code = 500 /\ deliveries[k].id # None
            /\ deliveries[1].guid = deliveries[2].guid)
           => failed_delivery_ids = << deliveries[1].id >>
        /\ (\A k \in 1 .. Len(deliveries) : deliveries[k].status_code = 200)
           => failed_delivery_ids = << >>

C10_Witness ==
    /\ Len(deliveries) = 3
    /\ i > Len(deliveries)
    /\ deliveries[1].status_code = 500 /\ deliveries[1].id = None
    /\ deliveries[2].status_code = 500 /\ deliveries[2].id = "d1"
    /\ deliveries[3].status_code = 500 /\ deliveries[3].id = "d2"
    /\ deliveries[1].guid = "a" /\ deliveries[2].guid = "a" /\ deliveries[3].guid = "a"
    /\ failed_delivery_ids = << "d1" >>

\* C11: an id is selected only from the entry that is first in the list
\* among all entries with its guid, whatever their status; a guid whose
\* first entry has status 200 contributes no id.
C11_OnlyFirstOfGuidSelected ==
    [][failed_delivery_ids' # failed_delivery_ids =>
          \A q \in 1 .. (i - 1) : deliveries[q].guid # deliveries[i].guid]_vars

\* The deliveries of the fetched pages, in the order they were served.
RECURSIVE Flat(_)
Flat(pages) == IF pages = << >> THEN << >> ELSE Head(pages) \o Flat(Tail(pages))

Parseable(d) == d.delivered_at.k = "iso"
Old(d) == Parseable(d) /\ d.delivered_at.t < lst.cutoff_time
InWindow(d) == Parseable(d) /\ d.delivered_at.t >= lst.cutoff_time

\* position of the first delivery older than the cutoff, or one past the end
FirstOld(s) ==
    IF \E k \in 1 .. Len(s) : Old(s[k])
    THEN CHOOSE k \in 1 .. Len(s) : Old(s[k]) /\ \A q \in 1 .. (k - 1) : ~Old(s[q])
    ELSE Len(s) + 1

SeenBeforeStop == SubSeq(Flat(lst.seen), 1, FirstOld(Flat(lst.seen)) - 1)

FetchErrors == {"http_error", "neterr", "badjson"}

\* C12: the listing ends at the first delivery whose parseable timestamp is
\* before the cutoff: no page is fetched once such a delivery is among the
\* fetched ones, link or no link, and the result is exactly the deliveries
\* served before it whose timestamp parses and is at or after the cutoff;
\* missing and unparseable timestamps are passed over.
C12_StopsAtFirstOld ==
    /\ [](lst.pc = "returned" /\ lst.stop \notin FetchErrors
            => lst.deliveries = SelectSeq(SeenBeforeStop, InWindow))
    /\ [](lst.pc # "raised")
    /\ [][lst'.fetches # lst.fetches
            => \A k \in 1 .. Len(Flat(lst.seen)) : ~Old(Flat(lst.seen)[k])]_vars

C12_Witness ==
    /\ lst.pc = "returned"
    /\ lst.stop = "old"
    /\ lst.next
    /\ \E k \in 1 .. Len(SeenBeforeStop) : \E j \in (k + 1) .. Len(SeenBeforeStop) :
          /\ ~Parseable(SeenBeforeStop[k])
          /\ InWindow(SeenBeforeStop[j])

\* C13: when the fetch of page k fails (error status, network error, body
\* that is not JSON) the listing returns, without raising and without
\* another fetch, the in-window deliveries of pages 1 .. k-1.
C13_FetchFailureReturnsPartial ==
    /\ [](lst.stop \in FetchErrors
            => /\ lst.pc = "returned"
               /\ lst.fetches = Len(lst.seen) + 1
               /\ lst.deliveries = SelectSeq(Flat(lst.seen), InWindow))
    /\ [][lst.stop \in FetchErrors => lst'.fetches = lst.fetches]_vars

C13_Witness ==
    /\ lst.stop = "badjson"
    /\ lst.pc = "returned"
    /\ Len(lst.seen) = 1
    /\ lst.deliveries # << >>

\* C14: a redelivery attempt never raises and gives something other than
\* None only when the POST was answered with status 202.
C14_NonNoneOnlyOn202 ==
    \A n \in 1 .. Len(job.attempts) :
        /\ ~job.attempts[n].result.raised
        /\ job.attempts[n].result.ret # None => job.attempts[n].outcome.status_code = 202

AttemptedIds == [n \in 1 .. Len(job.attempts) |-> job.attempts[n].delivery_id]

\* C15: in a run of the retry job the ids attempted so far are the first ids
\* of the selected list, each once and in order, and the run ends only when
\* every selected id has been attempted, whatever the earlier attempts gave.
C15_EveryIdAttemptedOnce ==
    /\ AttemptedIds = SubSeq(job.failed_delivery_ids, 1, Len(job.attempts))
    /\ job.pc \in {"done", "raised"} => AttemptedIds = job.failed_delivery_ids

C15_Witness ==
    /\ job.pc = "done"
    /\ Len(job.attempts) = 2
    /\ job.attempts[1].outcome.exc = "Timeout"
    /\ job.attempts[2].outcome.status_code = 202

\* C16: no run of the retry job lets an exception out, whether it is raised
\* by the minting of the credential, the listing, the selection or a retry;
\* the job can be run again afterwards.
C16_JobNeverRaises == job.pc # "raised"

C16_Witness ==
    /\ job.runs = 1
    /\ job.pc = "done"
    /\ job.caught = "jwt"
    /\ job.github_app_private_key = "malformed"

Minted == job.auth_headers # None

C20_Original ==
    Minted => /\ job.payload.iss = job.github_app_id
              /\ job.payload.exp - job.payload.iat = 480

\* C20: a minted JWT has the app id as issuer, is issued 60 seconds before
\* the minting and expires 480 seconds after it: exp - iat = 540.
C20_JwtClaims ==
    Minted => /\ job.payload.iss = job.github_app_id
              /\ job.payload.iat = job.minted_at - 60
              /\ job.payload.exp = job.minted_at + 480
              /\ job.payload.exp - job.payload.iat = 540

C20_Witness ==
    /\ Minted
    /\ job.minted_at = MaxTime
    /\ job.github_app_id = "2"

Finished(fn) == prj.fn = fn /\ prj.pc \in {"returned", "raised"}

\* the request got no 2xx answer with a JSON body
FailsAtHttp(r) == r.transport # "ok"

\* every key of the path is there and leads to a value
PathPresent(r) == r.transport = "ok" /\ r.reach = 4

\* C17: when the request of resolve_project_node_id fails at HTTP level, or
\* the response has an errors array, or a step of the path
\* data.organization.projectV2.id is absent or null, the call returns None
\* and does not raise; a node id is returned only from an error-free
\* response in which the whole path is present.
C17_NodeIdOnlyFromCleanResponse ==
    /\ (/\ Finished("get_project_node_id")
        /\ prj.posts = 1
        /\ FailsAtHttp(prj.r) \/ prj.r.errors \/ ~PathPresent(prj.r))
           => prj.pc = "returned" /\ prj.node_id = None
    /\ (Finished("get_project_node_id") /\ prj.node_id # None)
           => prj.pc = "returned" /\ ~prj.r.errors /\ PathPresent(prj.r)

C17_Witness ==
    /\ Finished("get_project_node_id")
    /\ prj.posts = 1
    /\ prj.r.transport = "ok"
    /\ ~prj.r.errors
    /\ prj.r.reach = 2
    /\ prj.r.leaf = "null"
    /\ prj.node_id = None

\* the response has the key id under data.addProjectV2ItemById.item
ContainsItemId(r) ==
    r.transport = "ok" /\ (r.reach = 4 \/ (r.reach = 3 /\ r.leaf = "null"))

\* C18: add_item never raises; it returns true only for a successful HTTP
\* call whose response has no errors array and contains
\* data.addProjectV2ItemById.item.id, and false after an HTTP-level failure,
\* a GraphQL errors array or a missing field of that path.
C18_AddedOnlyWithItemId ==
    Finished("add_to_project") =>
        /\ prj.pc = "returned"
        /\ prj.added => ~FailsAtHttp(prj.r) /\ ~prj.r.errors /\ ContainsItemId(prj.r)
        /\ (FailsAtHttp(prj.r) \/ prj.r.errors \/ prj.r.leaf = "missing") => ~prj.added

C18_Witness ==
    /\ Finished("add_to_project")
    /\ prj.r.transport = "ok"
    /\ prj.r.errors
    /\ prj.r.reach = 4
    /\ ~prj.added

\* C22: no add_item call is made with an absent project node id: a service
\* whose startup resolved the project to None makes no such call.
C22_NoAddItemWithoutProject ==
    \A k \in 1 .. Len(last.calls) : last.calls[k].project # None

\* C23: the handler answers "Issue added to project." only when the add_item
\* call made for that event returned true.
C23_AddedReplyOnlyWhenAdded ==
    last.reply = "Issue added to project." => last.added

\* caller c made an exchange and its response carries a token and a
\* timestamp that parses
WellFormed(c) ==
    /\ th[c].resp.kind = "ok"
    /\ th[c].resp.token # None
    /\ th[c].resp.expires_at.k = "iso"

\* C21: when every caller is out of get_headers and every exchange made
\* received a well-formed response, the cached token and the cached expiry
\* are those of one and the same response.
C21_CachedPairFromOneResponse ==
    (/\ \A c \in Callers : th[c].pc \in {"idle", "done"}
     /\ \A c \in Callers : th[c].req > 0 => WellFormed(c)
     /\ \E c \in Callers : th[c].req > 0)
    => \E c \in Callers :
          /\ th[c].req > 0
          /\ _token = th[c].resp.token
          /\ _expires_at = th[c].resp.expires_at.t

Constructed == Len(cls.constructions)

\* C24: every construction of the token manager, sequential or concurrent,
\* returns the one instance made by the first; the instance keeps the
\* credentials given to the first construction, and a later construction
\* leaves the cached token and expiry as they were.
C24_Singleton ==
    /\ [](\A n \in 1 .. Constructed :
              /\ cls.constructions[n].ret # None
              /\ cls.constructions[n].ret = cls.constructions[1].ret
              /\ cls._instance = cls.constructions[1].ret)
    /\ [](Constructed >= 1 =>
              /\ cls.github_app_installation_id = cls.constructions[1].args.installation_id
              /\ cls.github_app_id = cls.constructions[1].args.app_id
              /\ cls.github_app_private_key = cls.constructions[1].args.private_key)
    /\ [][(Constructed >= 1 /\ Len(cls'.constructions) > Constructed)
              => _token' = _token /\ _expires_at' = _expires_at]_vars

C24_Witness ==
    /\ Constructed = 2
    /\ cls.constructions[2].args # cls.constructions[1].args
    /\ cls.constructions[2].cached # None
    /\ _token = cls.constructions[2].cached

====
